---------------------------- MODULE Spec2Model ----------------------------
(***************************************************************************)
(* Payment-history scraper: the extraction heuristic of scraper.py         *)
(* (PaymentDataScraper) and the session handlers of app.py (scrape_url,    *)
(* update_data, download_excel).                                           *)
(*                                                                         *)
(* Text is modelled as a sequence of one-character strings, so that        *)
(* lower(), strip(), split(), substring tests and the character whitelist  *)
(* are computed character by character as Python computes them.  Record    *)
(* keys (column names) are TLA+ strings; record values are texts.          *)
(***************************************************************************)
EXTENDS Integers, Sequences, FiniteSets, TLC

VARIABLES
    pc,           \* position of the handler / function under analysis
    text,         \* _clean_text: its argument
    cleaned,      \* _clean_text: its result
    headers,      \* _map_headers_to_targets: its argument
    mapping,      \* _map_headers_to_targets: its result (0-based index -> target)
    data,         \* _remove_duplicates: its argument
    unique_data,  \* _remove_duplicates: its result
    table,        \* _process_table: the table (a sequence of rows)
    table_data,   \* _process_table: the records it returns
    emitted,      \* _process_table: the row index each returned record was built from
    req,          \* the HTTP request being handled
    resp,         \* the HTTP response of the handled request
    session       \* the Flask session: scraped_data_<id> keys -> stored info

vars == <<pc, text, cleaned, headers, mapping, data, unique_data,
          table, table_data, emitted, req, resp, session>>

(***************************************************************************)
(* Bounds of the model.                                                    *)
(***************************************************************************)
MaxTextLen == 5
MaxHeaders == 2
MaxData == 3
MaxRows == 3
MaxTables == 2
MaxElements == 3
MaxEntries == 2

\* All sequences over S of length at most n.
SeqUpTo(S, n) == UNION {[1..k -> S] : k \in 0..n}

None == "None"

(***************************************************************************)
(* Python str primitives, on sequences of characters.                      *)
(***************************************************************************)
UpperLetters == <<"A", "B", "C", "D", "E", "F", "G", "H", "I", "J", "K", "L", "M", "N", "O", "P", "Q", "R", "S", "T", "U", "V", "W", "X", "Y", "Z">>
LowerLetters == <<"a", "b", "c", "d", "e", "f", "g", "h", "i", "j", "k", "l", "m", "n", "o", "p", "q", "r", "s", "t", "u", "v", "w", "x", "y", "z">>
Digits == <<"0", "1", "2", "3", "4", "5", "6", "7", "8", "9">>

Range(s) == {s[i] : i \in DOMAIN s}

\* str.isspace() for one character
IsSpace(c) == c \in {" ", "\t", "\n", "\r"}

\* \w of the re module for one character
IsWordChar(c) == c \in Range(UpperLetters) \cup Range(LowerLetters) \cup Range(Digits) \cup {"_"}

LowerChar(c) ==
    IF c \in Range(UpperLetters)
    THEN LowerLetters[CHOOSE i \in DOMAIN UpperLetters : UpperLetters[i] = c]
    ELSE c

\* str.lower()
Lower(s) == [i \in DOMAIN s |-> LowerChar(s[i])]

RECURSIVE LStrip(_)
LStrip(s) == IF s # <<>> /\ IsSpace(Head(s)) THEN LStrip(Tail(s)) ELSE s

RECURSIVE RStrip(_)
RStrip(s) ==
    IF s # <<>> /\ IsSpace(s[Len(s)]) THEN RStrip(SubSeq(s, 1, Len(s) - 1)) ELSE s

\* str.strip()
Strip(s) == RStrip(LStrip(s))

RECURSIVE Words(_, _, _)
Words(s, i, cur) ==
    IF i > Len(s) THEN (IF cur = <<>> THEN <<>> ELSE <<cur>>)
    ELSE IF IsSpace(s[i])
         THEN (IF cur = <<>> THEN <<>> ELSE <<cur>>) \o Words(s, i + 1, <<>>)
         ELSE Words(s, i + 1, Append(cur, s[i]))

\* str.split() with no argument: the maximal runs of non-whitespace
Split(s) == Words(s, 1, <<>>)

RECURSIVE Join(_, _)
\* sep.join(parts)
Join(sep, parts) ==
    IF parts = <<>> THEN <<>>
    ELSE IF Len(parts) = 1 THEN parts[1]
    ELSE parts[1] \o sep \o Join(sep, Tail(parts))

\* sub in s
Contains(sub, s) ==
    \E i \in 0..(Len(s) - Len(sub)) : SubSeq(s, i + 1, i + Len(sub)) = sub

\* s.startswith(p)
StartsWith(s, p) == Len(p) <= Len(s) /\ SubSeq(s, 1, Len(p)) = p

(***************************************************************************)
(* _clean_text                                                             *)
(***************************************************************************)
\* the characters the pattern [^\w\s\$€£¥.,:\-/()%] keeps
KeptChar(c) ==
    \/ IsWordChar(c)
    \/ IsSpace(c)
    \/ c \in {"$", "€", "£", "¥", ".", ",", ":", "-", "/", "(", ")", "%"}

\* re.sub(r'[^\w\s\$€£¥.,:\-/()%]', '', text)
RemoveUnwanted(s) == SelectSeq(s, KeptChar)

_clean_text(t) ==
    IF t = <<>> THEN <<>>
    ELSE Strip(RemoveUnwanted(Join(<<" ">>, Split(t))))

(***************************************************************************)
(* Column names (PaymentDataScraper.__init__)                              *)
(***************************************************************************)
target_columns ==
    <<"Receipt No", "Date", "Principal", "Pen", "CBU", "CBU withdraw", "Collector">>

calculated_columns ==
    <<"Principal_PassBook", "Principal_Variance", "CBU_PassBook", "CBU_Variance",
      "CBU_withdraw_PassBook", "CBU_withdraw_Variance">>

\* the characters of each target column name
ColumnText ==
    [c \in Range(target_columns) |->
        CASE c = "Receipt No"   -> <<"R", "e", "c", "e", "i", "p", "t", " ", "N", "o">>
          [] c = "Date"         -> <<"D", "a", "t", "e">>
          [] c = "Principal"    -> <<"P", "r", "i", "n", "c", "i", "p", "a", "l">>
          [] c = "Pen"          -> <<"P", "e", "n">>
          [] c = "CBU"          -> <<"C", "B", "U">>
          [] c = "CBU withdraw" -> <<"C", "B", "U", " ", "w", "i", "t", "h", "d", "r", "a", "w">>
          [] c = "Collector"    -> <<"C", "o", "l", "l", "e", "c", "t", "o", "r">>]

(***************************************************************************)
(* _map_headers_to_targets                                                 *)
(***************************************************************************)
\* The if/elif chain with the date fallback placed after the principal
\* fallback (a rule-order slip).
MapLowerReordered(header_lower, header) ==
    IF header_lower = <<"d", "a", "t", "e">> THEN "Date"
    ELSE IF header_lower \in {<<"r", "e", "c", "e", "i", "p", "t", " ", "n", "o">>, <<"r", "e", "c", "e", "i", "p", "t">>, <<"r", "e", "c", "e", "i", "p", "t", " ", "n", "u", "m", "b", "e", "r">>,
                              <<"r", "e", "f", " ", "n", "o">>, <<"r", "e", "f", "e", "r", "e", "n", "c", "e">>, <<"t", "r", "a", "n", "s", "a", "c", "t", "i", "o", "n", " ", "i", "d">>}
         THEN "Receipt No"
    ELSE IF header_lower = <<"p", "r", "i", "n", "c", "i", "p", "a", "l">> THEN "Principal"
    ELSE IF header_lower = <<"p", "e", "n">> THEN "Pen"
    ELSE IF header_lower = <<"c", "b", "u">> THEN "CBU"
    ELSE IF header_lower = <<"c", "b", "u", " ", "w", "i", "t", "h", "d", "r", "a", "w">> THEN "CBU withdraw"
    ELSE IF header_lower = <<"c", "o", "l", "l", "e", "c", "t", "o", "r">> THEN "Collector"
    ELSE IF header_lower \in {<<"p", "e", "n", "a", "l", "t", "y">>, <<"p", "e", "n">>, <<"d", "e", "n", "d", "a">>}
            \/ (header_lower = <<"p", "e", "n">> /\ Len(header) <= 5)
         THEN "Pen"
    ELSE IF Contains(<<"p", "r", "i", "n", "c", "i", "p", "a", "l">>, header_lower) \/ Contains(<<"p", "o", "k", "o", "k">>, header_lower)
         THEN "Principal"
    ELSE IF Contains(<<"d", "a", "t", "e">>, header_lower) /\ Len(header_lower) <= 10 THEN "Date"
    ELSE IF StartsWith(header_lower, <<"c", "b", "u">>)
         THEN (IF Contains(<<"w", "i", "t", "h", "d", "r", "a", "w">>, header_lower) \/ Contains(<<"t", "a", "r", "i", "k">>, header_lower)
               THEN "CBU withdraw" ELSE "CBU")
    ELSE IF Contains(<<"c", "o", "l", "l", "e", "c", "t", "o", "r">>, header_lower) \/ Contains(<<"k", "o", "l", "e", "k", "t", "o", "r">>, header_lower)
         THEN "Collector"
    ELSE None

\* The if/elif chain of the loop of _map_headers_to_targets for one header,
\* given header_lower: the target it assigns to mapping[i], or None when no
\* branch assigns.
MapLower(header_lower, header) ==
    IF header_lower = <<"d", "a", "t", "e">> THEN "Date"
    ELSE IF header_lower \in {<<"r", "e", "c", "e", "i", "p", "t", " ", "n", "o">>, <<"r", "e", "c", "e", "i", "p", "t">>, <<"r", "e", "c", "e", "i", "p", "t", " ", "n", "u", "m", "b", "e", "r">>,
                              <<"r", "e", "f", " ", "n", "o">>, <<"r", "e", "f", "e", "r", "e", "n", "c", "e">>, <<"t", "r", "a", "n", "s", "a", "c", "t", "i", "o", "n", " ", "i", "d">>}
         THEN "Receipt No"
    ELSE IF header_lower = <<"p", "r", "i", "n", "c", "i", "p", "a", "l">> THEN "Principal"
    ELSE IF header_lower = <<"p", "e", "n">> THEN "Pen"
    ELSE IF header_lower = <<"c", "b", "u">> THEN "CBU"
    ELSE IF header_lower = <<"c", "b", "u", " ", "w", "i", "t", "h", "d", "r", "a", "w">> THEN "CBU withdraw"
    ELSE IF header_lower = <<"c", "o", "l", "l", "e", "c", "t", "o", "r">> THEN "Collector"
    ELSE IF Contains(<<"d", "a", "t", "e">>, header_lower) /\ Len(header_lower) <= 10 THEN "Date"
    ELSE IF header_lower \in {<<"p", "e", "n", "a", "l", "t", "y">>, <<"p", "e", "n">>, <<"d", "e", "n", "d", "a">>}
            \/ (header_lower = <<"p", "e", "n">> /\ Len(header) <= 5)
         THEN "Pen"
    ELSE IF Contains(<<"p", "r", "i", "n", "c", "i", "p", "a", "l">>, header_lower) \/ Contains(<<"p", "o", "k", "o", "k">>, header_lower)
         THEN "Principal"
    ELSE IF StartsWith(header_lower, <<"c", "b", "u">>)
         THEN (IF Contains(<<"w", "i", "t", "h", "d", "r", "a", "w">>, header_lower) \/ Contains(<<"t", "a", "r", "i", "k">>, header_lower)
               THEN "CBU withdraw" ELSE "CBU")
    ELSE IF Contains(<<"c", "o", "l", "l", "e", "c", "t", "o", "r">>, header_lower) \/ Contains(<<"k", "o", "l", "e", "k", "t", "o", "r">>, header_lower)
         THEN "Collector"
    ELSE None

\* header_lower = header.lower().strip(), then the chain
MapHeader(header) == MapLower(Strip(Lower(header)), header)

\* the dict of the targets assigned, keyed by the 0-based header index
MappingOf(targets) ==
    [i \in {j \in 0..(Len(targets) - 1) : targets[j + 1] # None} |-> targets[i + 1]]

_map_headers_to_targets(hs) == MappingOf([j \in DOMAIN hs |-> MapHeader(hs[j])])

(***************************************************************************)
(* _remove_duplicates                                                      *)
(***************************************************************************)
\* every column name a record can hold, in Python's string order (sorted())
KeyOrder ==
    <<"CBU", "CBU withdraw", "CBU_PassBook", "CBU_Variance", "CBU_withdraw_PassBook",
      "CBU_withdraw_Variance", "Collector", "Date", "Pen", "Principal",
      "Principal_PassBook", "Principal_Variance", "Receipt No">>

\* sorted(item) of the keys alone
SortedKeys(item) ==
    LET Has(k) == k \in DOMAIN item IN SelectSeq(KeyOrder, Has)

\* A signature that forgets the values.
SignatureKeysOnly(item) == SortedKeys(item)

\* tuple(sorted(item.items())): the (key, value) pairs in key order
Signature(item) ==
    LET Pairs(ks) == [i \in DOMAIN ks |-> <<ks[i], item[ks[i]]>>] IN Pairs(SortedKeys(item))

RECURSIVE DedupLoop(_, _, _, _)
\* the for loop of _remove_duplicates from item i on
DedupLoop(d, i, seen, unique) ==
    IF i > Len(d) THEN unique
    ELSE LET Step(item_signature) ==
                 IF item_signature \notin seen
                 THEN DedupLoop(d, i + 1, seen \cup {item_signature}, Append(unique, d[i]))
                 ELSE DedupLoop(d, i + 1, seen, unique)
         IN  Step(Signature(d[i]))

_remove_duplicates(d) == DedupLoop(d, 1, {}, <<>>)

(***************************************************************************)
(* _process_table                                                          *)
(*                                                                         *)
(* A table is the sequence of its <tr> rows in document order; a row is    *)
(* the sequence of its cells; a cell is [tag, bold, text] with tag "th" or *)
(* "td", bold whether it holds a <b> or the style font-weight:bold, and    *)
(* text its get_text().  White space between tags is part of the text of   *)
(* the cell before it.                                                     *)
(***************************************************************************)
RECURSIVE Concat(_)
Concat(parts) == IF parts = <<>> THEN <<>> ELSE Head(parts) \o Concat(Tail(parts))

\* table.get_text().lower()
TableText(t) == Lower(Concat([i \in DOMAIN t |-> Concat([j \in DOMAIN t[i] |-> t[i][j].text])]))

payment_indicators ==
    {<<"r", "e", "c", "e", "i", "p", "t">>, <<"d", "a", "t", "e">>, <<"p", "r", "i", "n", "c", "i", "p", "a", "l">>, <<"c", "o", "l", "l", "e", "c", "t", "o", "r">>, <<"p", "e", "n">>, <<"c", "b", "u">>, <<"p", "a", "y", "m", "e", "n", "t">>,
     <<"a", "m", "o", "u", "n", "t", " ", "p", "a", "i", "d">>}

_is_payment_table(table_text) ==
    Cardinality({ind \in payment_indicators : Contains(ind, table_text)}) >= 4

_contains_header_keywords(hs) ==
    LET header_text == Lower(Join(<<" ">>, hs)) IN
    \E i \in DOMAIN target_columns :
        Contains(Lower(ColumnText[target_columns[i]]), header_text)

IsTh(cell) == cell.tag = "th"
IsTd(cell) == cell.tag = "td"

\* row.find_all('th'), row.find_all('td')
ThCells(row) == SelectSeq(row, IsTh)
TdCells(row) == SelectSeq(row, IsTd)

CleanCells(cells) == [i \in DOMAIN cells |-> _clean_text(cells[i].text)]

\* the second break condition of the header search, given td_cells
TdHeader(td_cells) ==
    /\ td_cells # <<>>
    /\ \/ \E i \in DOMAIN td_cells : td_cells[i].bold
       \/ _contains_header_keywords(CleanCells(td_cells))

\* the two break conditions of the header search, for one row
IsHeaderRow(row) == ThCells(row) # <<>> \/ TdHeader(TdCells(row))

\* the first index flagged, 0 when none is
FirstTrue(flags) ==
    IF \E i \in DOMAIN flags : flags[i]
    THEN CHOOSE i \in DOMAIN flags : flags[i] /\ \A j \in 1..(i - 1) : ~flags[j]
    ELSE 0

\* the index of header_row among table.find_all('tr'), 0 when the loop ends
\* without a break
HeaderRowIndex(t) == FirstTrue([i \in DOMAIN t |-> IsHeaderRow(t[i])])

\* headers, as the break that chose the header row set them
HeadersFrom(th_cells, row) ==
    IF th_cells # <<>> THEN CleanCells(th_cells) ELSE CleanCells(TdCells(row))

HeadersOf(row) == HeadersFrom(ThCells(row), row)

\* data_rows = all_rows[1:] if header_row else all_rows, as row indices
DataRows(t, h) == IF h # 0 THEN 2..Len(t) ELSE 1..Len(t)

\* row_data after the step of the cell loop for cell i (0-based i - 1)
RowDataStep(row_data, column_mapping, i, cell_text) ==
    IF (i - 1) \in DOMAIN column_mapping /\ cell_text # <<>>
    THEN [k \in DOMAIN row_data \cup {column_mapping[i - 1]} |->
             IF k = column_mapping[i - 1] THEN cell_text ELSE row_data[k]]
    ELSE row_data

RECURSIVE RowDataLoop(_, _, _, _)
\* the loop over the cells of one row: a later cell of the same target overwrites
RowDataLoop(cells, column_mapping, i, row_data) ==
    IF i > Len(cells) THEN row_data
    ELSE RowDataLoop(cells, column_mapping, i + 1,
             RowDataStep(row_data, column_mapping, i, _clean_text(cells[i].text)))

RowData(cells, column_mapping) == RowDataLoop(cells, column_mapping, 1, <<>>)

\* the six assignments row_data[...] = ''
WithCalculated(row_data) ==
    [k \in DOMAIN row_data \cup Range(calculated_columns) |->
        IF k \in Range(calculated_columns) THEN <<>> ELSE row_data[k]]

\* A row threshold of two populated fields instead of three.
RowAcceptedTwo(cells, hs, row_data) ==
    Len(cells) = Len(hs) /\ Cardinality(DOMAIN row_data) >= 2

\* whether the loop over data_rows appends a record for a row, given its row_data
RowAccepted(cells, hs, row_data) ==
    Len(cells) = Len(hs) /\ Cardinality(DOMAIN row_data) >= 3

\* what one data row appends to data: nothing or one entry
RowEntry(i, cells, hs, row_data) ==
    IF RowAccepted(cells, hs, row_data)
    THEN <<[row |-> i, record |-> WithCalculated(row_data)]>>
    ELSE <<>>

RECURSIVE DataRowsLoop(_, _, _, _, _)
\* the loop over data_rows from row i on
DataRowsLoop(t, h, hs, column_mapping, i) ==
    IF i > Len(t) THEN <<>>
    ELSE (IF i \in DataRows(t, h)
          THEN RowEntry(i, t[i], hs, RowData(t[i], column_mapping))
          ELSE <<>>)
         \o DataRowsLoop(t, h, hs, column_mapping, i + 1)

\* _process_table from the mapping on
WithMapping(t, h, hs, column_mapping) ==
    IF Cardinality(DOMAIN column_mapping) < 3 THEN <<>>
    ELSE DataRowsLoop(t, h, hs, column_mapping, 1)

\* _process_table from the headers on
WithHeaders(t, h, hs) == WithMapping(t, h, hs, _map_headers_to_targets(hs))

\* _process_table from the header row on
WithHeaderRow(t, h) == IF h = 0 THEN <<>> ELSE WithHeaders(t, h, HeadersOf(t[h]))

\* _process_table, each record it returns with the index of the row it was
\* built from
ProcessRows(t) ==
    IF ~_is_payment_table(TableText(t)) THEN <<>>
    ELSE WithHeaderRow(t, HeaderRowIndex(t))

Records(entries) == [k \in DOMAIN entries |-> entries[k].record]
RowsOf(entries) == [k \in DOMAIN entries |-> entries[k].row]

_process_table(t) == Records(ProcessRows(t))

\* _extract_from_tables: soup.find_all('table') is the sequence tables
_extract_from_tables(tables) == Concat([i \in DOMAIN tables |-> _process_table(tables[i])])

(***************************************************************************)
(* _extract_from_structured_content                                        *)
(*                                                                         *)
(* elements is the sequence of get_text() of soup.find_all(['div', 'span', *)
(* 'p']) in document order.                                                *)
(***************************************************************************)
\* the index of the first ':' of s, 0 when there is none
ColonIndex(s) ==
    IF \E i \in DOMAIN s : s[i] = ":"
    THEN CHOOSE i \in DOMAIN s : s[i] = ":" /\ \A j \in 1..(i - 1) : s[j] # ":"
    ELSE 0

\* the for loop over target_columns with its break: the first target whose
\* lowercased name occurs in the lowercased key, None when there is none
FirstTargetIn(key) ==
    LET First(hits) ==
            IF hits = {} THEN None
            ELSE target_columns[CHOOSE i \in hits : \A j \in hits : i <= j]
    IN  First({i \in DOMAIN target_columns :
                  Contains(Lower(ColumnText[target_columns[i]]), Lower(key))})

\* current_record[target] = value, when the loop over target_columns broke
Assign(current_record, target, value) ==
    IF target = None THEN current_record
    ELSE [k \in DOMAIN current_record \cup {target} |->
             IF k = target THEN value ELSE current_record[k]]

\* parts = text.split(':', 1) at the first colon c, then the target loop
SplitAt(current_record, txt, c) ==
    IF c = 0 THEN current_record
    ELSE Assign(current_record, FirstTargetIn(Strip(SubSeq(txt, 1, c - 1))),
                Strip(SubSeq(txt, c + 1, Len(txt))))

\* current_record after the key-value step for one element text
WithKeyValue(current_record, txt) == SplitAt(current_record, txt, ColonIndex(txt))

RECURSIVE StructuredLoop(_, _, _, _)
StructuredLoop(elements, i, current_record, d) ==
    IF i > Len(elements)
    THEN (IF DOMAIN current_record # {} THEN Append(d, current_record) ELSE d)
    ELSE LET Flush(rec) ==
                 IF Cardinality(DOMAIN rec) >= 2
                 THEN StructuredLoop(elements, i + 1, <<>>, Append(d, rec))
                 ELSE StructuredLoop(elements, i + 1, rec, d)
         IN  Flush(WithKeyValue(current_record, _clean_text(elements[i])))

_extract_from_structured_content(elements) == StructuredLoop(elements, 1, <<>>, <<>>)

(***************************************************************************)
(* scrape_payment_data                                                     *)
(*                                                                         *)
(* fetch is what self.session.get and the parser produce for the URL:      *)
(* [kind |-> "request_error"] (requests.RequestException, raise_for_status *)
(* included), [kind |-> "parse_error"] (any other exception of the try     *)
(* block) or [kind |-> "page", tables, elements] (the parsed document).    *)
(***************************************************************************)
\* The fallback run whatever the tables gave.
OrFallbackAlways(payment_data, elements) ==
    payment_data \o _extract_from_structured_content(elements)

\* if not payment_data: payment_data.extend(...)
OrFallback(payment_data, elements) ==
    IF payment_data = <<>>
    THEN payment_data \o _extract_from_structured_content(elements)
    ELSE payment_data

\* payment_data as handed to _remove_duplicates
PaymentData(page) == OrFallback(_extract_from_tables(page.tables), page.elements)

Returned(payment_data) ==
    [raised |-> FALSE, message |-> "", gets |-> 1, payment_data |-> payment_data,
     unique_data |-> _remove_duplicates(payment_data)]

\* gets counts the calls of self.session.get
scrape_payment_data(fetch) ==
    IF fetch.kind = "request_error"
    THEN [raised |-> TRUE, message |-> "Failed to fetch URL", gets |-> 1,
          payment_data |-> <<>>, unique_data |-> <<>>]
    ELSE IF fetch.kind = "parse_error"
    THEN [raised |-> TRUE, message |-> "Failed to scrape data", gets |-> 1,
          payment_data |-> <<>>, unique_data |-> <<>>]
    ELSE Returned(PaymentData(fetch))

(***************************************************************************)
(* app.py: the Flask session                                               *)
(*                                                                         *)
(* session maps the id of each scraped_data_<id> key of the signed session *)
(* cookie to what is stored under it, [data, url, columns].  The cookie is *)
(* read anew by every request and written back only when Flask's           *)
(* session.modified is set, which an assignment session[key] = ... or      *)
(* session.pop(key) does and an in-place change of a stored list does not. *)
(* Flashed messages are shown in the response and are not part of session. *)
(***************************************************************************)
SessionIds == {"u1", "u2"}

\* what scrape_url stores under a key; columns is list(data[0].keys()) as a set
StoredInfo(d, url) ==
    [data |-> d, url |-> url, columns |-> IF d = <<>> THEN {} ELSE DOMAIN d[1]]

\* session with key sid removed (session.pop)
Without(sess, sid) == [k \in (DOMAIN sess) \ {sid} |-> sess[k]]

\* session with sess[sid] = info
WithKey(sess, sid, info) ==
    [k \in (DOMAIN sess) \cup {sid} |-> IF k = sid THEN info ELSE sess[k]]

(***************************************************************************)
(* scrape_url                                                              *)
(***************************************************************************)
SchemeChars == Range(UpperLetters) \cup Range(LowerLetters) \cup Range(Digits) \cup {"+", "-", "."}

\* urlparse(url).scheme
UrlScheme(url) ==
    LET c == ColonIndex(url) IN
    IF /\ c > 1
       /\ url[1] \in Range(UpperLetters) \cup Range(LowerLetters)
       /\ \A i \in 1..(c - 1) : url[i] \in SchemeChars
    THEN Lower(SubSeq(url, 1, c - 1))
    ELSE <<>>

\* urlparse(url).netloc
UrlNetloc(url) ==
    LET rest == IF UrlScheme(url) # <<>>
                THEN SubSeq(url, ColonIndex(url) + 1, Len(url)) ELSE url
        after == SubSeq(rest, 3, Len(rest))
        stops == {i \in DOMAIN after : after[i] \in {"/", "?", "#"}}
    IN  IF ~StartsWith(rest, <<"/", "/">>) THEN <<>>
        ELSE IF stops = {} THEN after
        ELSE SubSeq(after, 1, (CHOOSE i \in stops : \A j \in stops : i <= j) - 1)

Redirect(location, category, message, fetches) ==
    [op |-> "scrape", status |-> 302, location |-> location,
     flashes |-> IF category = None THEN <<>>
                 ELSE <<[category |-> category, message |-> message]>>,
     fetches |-> fetches]

NotScraped ==
    [raised |-> FALSE, message |-> "", gets |-> 0, payment_data |-> <<>>,
     unique_data |-> <<>>]

\* The session written whatever the scraper returned.
StoreAlways(url, sess, session_id, r) ==
    [resp |-> Redirect("preview", None, "", r.gets),
     session |-> WithKey(sess, session_id, StoredInfo(r.unique_data, url)),
     scraped |-> r]

\* scrape_url from the return (or the exception) r of scrape_payment_data on
Store(url, sess, session_id, r) ==
    IF r.raised
    THEN [resp |-> Redirect("index", "error", r.message, r.gets),
          session |-> sess, scraped |-> r]
    ELSE IF r.unique_data = <<>>
    THEN [resp |-> Redirect("index", "warning",
                       "No payment data found on the specified page", r.gets),
          session |-> sess, scraped |-> r]
    ELSE [resp |-> Redirect("preview", None, "", r.gets),
          session |-> WithKey(sess, session_id, StoredInfo(r.unique_data, url)),
          scraped |-> r]

\* scrape_url from the stripped url on
Validated(url, fetch, sess, session_id) ==
    IF url = <<>>
    THEN [resp |-> Redirect("index", "error", "Please enter a valid URL", 0),
          session |-> sess, scraped |-> NotScraped]
    ELSE IF UrlScheme(url) = <<>> \/ UrlNetloc(url) = <<>>
    THEN [resp |-> Redirect("index", "error",
                       "Please enter a valid URL with http:// or https://", 0),
          session |-> sess, scraped |-> NotScraped]
    ELSE Store(url, sess, session_id, scrape_payment_data(fetch))

\* The handler of POST /scrape: its response, the session it leaves and what
\* scrape_payment_data returned to it.  session_id is the uuid4 drawn.
scrape_url(request, sess, session_id) ==
    Validated(Strip(request.url), request.fetch, sess, session_id)

(***************************************************************************)
(* preview and download_excel                                              *)
(***************************************************************************)
preview(session_id, sess) ==
    IF session_id \notin DOMAIN sess
    THEN [op |-> "preview", status |-> 302, rows |-> <<>>]
    ELSE [op |-> "preview", status |-> 200, rows |-> sess[session_id].data]

column_order ==
    <<"Receipt No", "Date", "Principal", "Pen", "Principal_PassBook",
      "Principal_Variance", "CBU", "CBU_PassBook", "CBU_Variance", "CBU withdraw",
      "CBU_withdraw_PassBook", "CBU_withdraw_Variance", "Collector">>

\* the loop "Ensure all columns exist in the data", for one row
FillColumns(row) ==
    [c \in DOMAIN row \cup Range(column_order) |-> IF c \in DOMAIN row THEN row[c] ELSE <<>>]

\* The handler of GET /download: the rows written to the sheet and the
\* session with the key popped.
download_excel(session_id, sess) ==
    IF session_id \notin DOMAIN sess
    THEN [resp |-> [op |-> "download", status |-> 302, rows |-> <<>>], session |-> sess]
    ELSE [resp |-> [op |-> "download", status |-> 200,
                    rows |-> [i \in DOMAIN sess[session_id].data |->
                                 FillColumns(sess[session_id].data[i])]],
          session |-> Without(sess, session_id)]

(***************************************************************************)
(* update_data                                                             *)
(*                                                                         *)
(* The JSON body is [kind |-> "object", entries] with entries the sequence *)
(* of its (key, updates) pairs in order, or [kind |-> "null"]; updates is  *)
(* [kind |-> "object", items] with items its (key, value) pairs in order,  *)
(* or [kind |-> "list"]; a value is [t |-> "str", v], [t |-> "int", v] or  *)
(* [t |-> "null"].                                                         *)
(***************************************************************************)
DigitValue(c) == (CHOOSE i \in DOMAIN Digits : Digits[i] = c) - 1

RECURSIVE DigitsValue(_)
DigitsValue(ds) ==
    IF ds = <<>> THEN 0
    ELSE 10 * DigitsValue(SubSeq(ds, 1, Len(ds) - 1)) + DigitValue(ds[Len(ds)])

IsDigit(c) == c \in Range(Digits)

\* int(s) for a str: [ok |-> FALSE] stands for ValueError
ParseInt(s) ==
    LET t == Strip(s)
        signed == t # <<>> /\ t[1] \in {"+", "-"}
        body == IF signed THEN Tail(t) ELSE t
        wellFormed ==
            /\ body # <<>>
            /\ \A i \in DOMAIN body : IsDigit(body[i]) \/ body[i] = "_"
            /\ IsDigit(body[1]) /\ IsDigit(body[Len(body)])
            /\ \A i \in 1..(Len(body) - 1) : ~(body[i] = "_" /\ body[i + 1] = "_")
        magnitude == DigitsValue(SelectSeq(body, IsDigit))
    IN  IF ~wellFormed THEN [ok |-> FALSE, n |-> 0]
        ELSE [ok |-> TRUE, n |-> IF signed /\ t[1] = "-" THEN 0 - magnitude ELSE magnitude]

RECURSIVE NatToStr(_)
NatToStr(n) ==
    IF n < 10 THEN <<Digits[n + 1]>> ELSE Append(NatToStr(n \div 10), Digits[(n % 10) + 1])

\* str(value)
Str(value) ==
    CASE value.t = "str" -> value.v
      [] value.t = "int" -> IF value.v < 0 THEN <<"-">> \o NatToStr(0 - value.v)
                            ELSE NatToStr(value.v)
      [] value.t = "null" -> <<"N", "o", "n", "e">>

\* A whitelist that also lets the scraped principal through.
update_whitelist_with_principal ==
    {"Principal_PassBook", "Principal_Variance", "CBU_PassBook", "CBU_Variance",
     "CBU_withdraw_PassBook", "CBU_withdraw_Variance", "Principal"}

\* the list literal of the membership test of line 110
update_whitelist ==
    {"Principal_PassBook", "Principal_Variance", "CBU_PassBook", "CBU_Variance",
     "CBU_withdraw_PassBook", "CBU_withdraw_Variance"}

\* data[row_idx][key] = value on a Python list of n rows: the 1-based position
\* written, 0 for IndexError
ListPosition(row_idx, n) ==
    IF row_idx >= 0 THEN (IF row_idx < n THEN row_idx + 1 ELSE 0)
    ELSE (IF row_idx >= 0 - n THEN n + row_idx + 1 ELSE 0)

SetField(row, key, value) ==
    [k \in DOMAIN row \cup {key} |-> IF k = key THEN value ELSE row[k]]

RECURSIVE ItemsLoop(_, _, _, _)
\* for key, value in updates.items(), from item j on
ItemsLoop(items, j, d, row_idx) ==
    IF j > Len(items) THEN [raised |-> FALSE, data |-> d]
    ELSE IF items[j].key \in update_whitelist
    THEN LET pos == ListPosition(row_idx, Len(d)) IN
         IF pos = 0 THEN [raised |-> TRUE, data |-> d]
         ELSE ItemsLoop(items, j + 1,
                  [d EXCEPT ![pos] = SetField(d[pos], items[j].key, Str(items[j].value))],
                  row_idx)
    ELSE ItemsLoop(items, j + 1, d, row_idx)

RECURSIVE EntriesLoop(_, _, _)
\* for row_index, updates in update_data.items(), from entry i on; data is the
\* list of this request, changed in place
EntriesLoop(entries, i, d) ==
    IF i > Len(entries) THEN [raised |-> FALSE, data |-> d]
    ELSE LET row_idx == ParseInt(entries[i].key) IN
         IF ~row_idx.ok THEN [raised |-> TRUE, data |-> d]
         ELSE IF row_idx.n < Len(d)
         THEN IF entries[i].updates.kind # "object" THEN [raised |-> TRUE, data |-> d]
              ELSE LET r == ItemsLoop(entries[i].updates.items, 1, d, row_idx.n) IN
                   IF r.raised THEN r ELSE EntriesLoop(entries, i + 1, r.data)
         ELSE EntriesLoop(entries, i + 1, d)

\* The handler of POST /update_data: its response and the session it leaves.
\* The except branch assigns nothing to session, so what the loop changed in
\* place before the exception is not written back.
update_data(request, sess) ==
    IF request.session_id \notin DOMAIN sess
    THEN [resp |-> [op |-> "update", status |-> 400, json |-> "Session expired"],
          session |-> sess]
    ELSE IF request.body.kind # "object"
    THEN [resp |-> [op |-> "update", status |-> 500, json |-> "error"], session |-> sess]
    ELSE LET r == EntriesLoop(request.body.entries, 1, sess[request.session_id].data) IN
         IF r.raised
         THEN [resp |-> [op |-> "update", status |-> 500, json |-> "error"],
               session |-> sess]
         ELSE [resp |-> [op |-> "update", status |-> 200, json |-> "success"],
               session |-> WithKey(sess, request.session_id,
                               [sess[request.session_id] EXCEPT !.data = r.data])]

(***************************************************************************)
(* Values of the variables a specification does not use                    *)
(***************************************************************************)
NoRequest == [op |-> "none"]

IdleClean == text = <<>> /\ cleaned = <<>>
IdleMap == headers = <<>> /\ mapping = <<>>
IdleDedup == data = <<>> /\ unique_data = <<>>
IdleTable == table = <<>> /\ table_data = <<>> /\ emitted = <<>>
IdleApp == req = NoRequest /\ resp = NoRequest /\ session = <<>>

(***************************************************************************)
(* SpecClean: _clean_text applied to every text over CleanAlphabet of      *)
(* length at most MaxTextLen, and applied again to its own result.         *)
(***************************************************************************)
CleanAlphabet == {"a", "B", " ", "\t", "#", "$"}

InitClean ==
    /\ pc = "clean_input"
    /\ text \in SeqUpTo(CleanAlphabet, MaxTextLen)
    /\ cleaned = <<>>
    /\ IdleMap /\ IdleDedup /\ IdleTable /\ IdleApp

CleanText ==
    /\ pc = "clean_input"
    /\ cleaned' = _clean_text(text)
    /\ pc' = "cleaned"
    /\ UNCHANGED <<text, headers, mapping, data, unique_data, table, table_data,
                   emitted, req, resp, session>>

CleanAgain ==
    /\ pc = "cleaned"
    /\ text' = cleaned
    /\ cleaned' = _clean_text(cleaned)
    /\ pc' = "recleaned"
    /\ UNCHANGED <<headers, mapping, data, unique_data, table, table_data,
                   emitted, req, resp, session>>

NextClean == CleanText \/ CleanAgain

SpecClean == InitClean /\ [][NextClean]_vars

(***************************************************************************)
(* SpecMap: _map_headers_to_targets applied to every list of at most       *)
(* MaxHeaders headers of HeaderPool.                                       *)
(***************************************************************************)
HeaderPool ==
    {<<"D", "a", "t", "e">>, <<"P", "r", "i", "n", "c", "i", "p", "a", "l">>, <<"P", "e", "n">>, <<"C", "B", "U">>, <<"C", "o", "l", "l", "e", "c", "t", "o", "r">>, <<"C", "B", "U", " ", "W", "i", "t", "h", "d", "r", "a", "w">>, <<"P", "o", "k", "o", "k">>,
     <<"R", "e", "c", "e", "i", "p", "t", " ", "N", "o">>, <<"R", "e", "f", " ", "N", "o">>, <<"P", "e", "n", "a", "l", "t", "y">>, <<"D", "e", "n", "d", "a">>, <<"D", "u", "e", " ", "D", "a", "t", "e">>, <<"D", "a", "t", "e", " ", "P", "o", "k", "o", "k">>,
     <<"P", "a", "y", "m", "e", "n", "t", " ", "D", "a", "t", "e">>, <<"P", "r", "i", "n", "c", "i", "p", "a", "l", " ", "D", "a", "t", "e">>, <<"c", "b", "u", " ", "d", "a", "t", "e">>, <<"C", "B", "U", " ", "T", "a", "r", "i", "k">>, <<"c", "b", "u", " ", "s", "a", "v", "i", "n", "g">>,
     <<"W", "i", "t", "h", "d", "r", "a", "w", " ", "C", "B", "U">>, <<"K", "o", "l", "e", "k", "t", "o", "r">>, <<"C", "o", "l", "l", "e", "c", "t", "o", "r", " ", "N", "a", "m", "e">>, <<" ", "P", "E", "N", " ">>, <<"O", "p", "e", "n">>, <<"A", "m", "o", "u", "n", "t">>, <<>>}

InitMap ==
    /\ pc = "map_input"
    /\ headers \in SeqUpTo(HeaderPool, MaxHeaders)
    /\ mapping = <<>>
    /\ IdleClean /\ IdleDedup /\ IdleTable /\ IdleApp

MapHeaders ==
    /\ pc = "map_input"
    /\ mapping' = _map_headers_to_targets(headers)
    /\ pc' = "mapped"
    /\ UNCHANGED <<text, cleaned, headers, data, unique_data, table, table_data,
                   emitted, req, resp, session>>

NextMap == MapHeaders

SpecMap == InitMap /\ [][NextMap]_vars

(***************************************************************************)
(* SpecDedup: _remove_duplicates applied to every list of at most MaxData  *)
(* records of DedupRecords.                                                *)
(***************************************************************************)
DedupRecords == UNION {[K -> {<<"1">>, <<"2">>}] : K \in SUBSET {"Date", "Pen"}}

InitDedup ==
    /\ pc = "dedup_input"
    /\ data \in SeqUpTo(DedupRecords, MaxData)
    /\ unique_data = <<>>
    /\ IdleClean /\ IdleMap /\ IdleTable /\ IdleApp

RemoveDuplicates ==
    /\ pc = "dedup_input"
    /\ unique_data' = _remove_duplicates(data)
    /\ pc' = "deduped"
    /\ UNCHANGED <<text, cleaned, headers, mapping, data, table, table_data,
                   emitted, req, resp, session>>

NextDedup == RemoveDuplicates

SpecDedup == InitDedup /\ [][NextDedup]_vars

(***************************************************************************)
(* SpecTable: _process_table applied to every table of at most MaxRows     *)
(* rows of RowPool.                                                        *)
(***************************************************************************)
Th(t) == [tag |-> "th", bold |-> FALSE, text |-> t]
Td(t) == [tag |-> "td", bold |-> FALSE, text |-> t]
TdBold(t) == [tag |-> "td", bold |-> TRUE, text |-> t]

TitleRow == <<Td(<<"P", "a", "y", "m", "e", "n", "t", " ", "r", "e", "c", "e", "i", "p", "t", "s", " ">>)>>
HeaderRow == <<Th(<<"D", "a", "t", "e">>), Th(<<"P", "r", "i", "n", "c", "i", "p", "a", "l">>), Th(<<" ", "P", "e", "n", " ">>)>>
DupHeaderRow == <<Th(<<"D", "a", "t", "e">>), Th(<<"D", "a", "t", "e">>), Th(<<"P", "r", "i", "n", "c", "i", "p", "a", "l">>)>>
TwoHeaderRow == <<Th(<<"D", "a", "t", "e">>), Th(<<"P", "e", "n">>), Th(<<"A", "m", "o", "u", "n", "t">>)>>
BoldHeaderRow == <<TdBold(<<"D", "a", "t", "e">>), Td(<<"C", "B", "U">>), Td(<<"C", "o", "l", "l", "e", "c", "t", "o", "r">>)>>
KeywordRow == <<Td(<<"D", "a", "t", "e">>), Td(<<"P", "r", "i", "n", "c", "i", "p", "a", "l">>), Td(<<"P", "e", "n">>), Td(<<"C", "o", "l", "l", "e", "c", "t", "o", "r">>)>>
DataRowA == <<Td(<<"0", "1", "/", "0", "2">>), Td(<<" ", "1", ",", "0", "0", "0", " ">>), Td(<<"5">>)>>
DataRowB == <<Td(<<"0", "1", "/", "0", "2">>), Td(<<>>), Td(<<"5">>)>>
DataRowC == <<Td(<<"0", "3", "/", "0", "4">>), Td(<<"7">>)>>
DataRowD == <<Td(<<"0", "3", "/", "0", "4">>), Td(<<"2", "0", "0">>), Td(<<"5">>), Td(<<"A", "n", "n">>)>>

RowPool ==
    {TitleRow, HeaderRow, DupHeaderRow, TwoHeaderRow, BoldHeaderRow, KeywordRow,
     DataRowA, DataRowB, DataRowC, DataRowD}

InitTable ==
    /\ pc = "table_input"
    /\ table \in SeqUpTo(RowPool, MaxRows)
    /\ table_data = <<>>
    /\ emitted = <<>>
    /\ IdleClean /\ IdleMap /\ IdleDedup /\ IdleApp

ProcessTable ==
    /\ pc = "table_input"
    /\ \E entries \in {ProcessRows(table)} :
          /\ table_data' = Records(entries)
          /\ emitted' = RowsOf(entries)
    /\ pc' = "processed"
    /\ UNCHANGED <<text, cleaned, headers, mapping, data, unique_data, table,
                   req, resp, session>>

NextTable == ProcessTable

SpecTable == InitTable /\ [][NextTable]_vars

(***************************************************************************)
(* Spec: one POST /scrape on a fresh session, for every URL of UrlPool and *)
(* every outcome of the fetch in FetchPool, followed by GET /preview and   *)
(* GET /download.                                                          *)
(***************************************************************************)
DataRowE == <<Td(<<"0", "5", "/", "0", "6">>), Td(<<"3", "0", "0">>), Td(<<>>), Td(<<"B", "o">>)>>

\* yields the records of DataRowD, DataRowE and DataRowD again
TableA == <<KeywordRow, DataRowD, DataRowE, DataRowD>>
\* rejected: two mappable headers
TableC == <<TitleRow, TwoHeaderRow, DataRowA>>

TablePool == {TableA, TableC}
ElementPool == {<<"D", "a", "t", "e", ":", " ", "0", "1", "/", "0", "2">>, <<" ", "P", "e", "n", " ", ":", " ", "5", " ">>, <<"h", "e", "l", "l", "o">>}
UrlPool == {<<>>, <<" ", "h", ".", "i", "o", "/", "p", " ">>, <<"h", "t", "t", "p", ":", "/", "/", "h", "/", "p">>}

Pages ==
    {[kind |-> "page", tables |-> ts, elements |-> es] :
        ts \in SeqUpTo(TablePool, MaxTables), es \in SeqUpTo(ElementPool, MaxElements)}

FetchPool == {[kind |-> "request_error"], [kind |-> "parse_error"]} \cup Pages

Init ==
    /\ pc = "request"
    /\ req \in {[op |-> "scrape", url |-> u, fetch |-> f] : u \in UrlPool, f \in FetchPool}
    /\ resp = NoRequest
    /\ session = <<>>
    /\ IdleClean /\ IdleMap /\ IdleDedup /\ IdleTable

ScrapeUrl ==
    /\ pc = "request"
    /\ req.op = "scrape"
    /\ \E session_id \in SessionIds \ DOMAIN session :
         \E r \in {scrape_url(req, session, session_id)} :
            /\ resp' = r.resp
            /\ session' = r.session
            /\ data' = r.scraped.payment_data
            /\ unique_data' = r.scraped.unique_data
    /\ pc' = "responded"
    /\ UNCHANGED <<text, cleaned, headers, mapping, table, table_data, emitted, req>>

Preview ==
    /\ pc = "responded"
    /\ \E session_id \in SessionIds : resp' = preview(session_id, session)
    /\ pc' = "previewed"
    /\ UNCHANGED <<text, cleaned, headers, mapping, data, unique_data, table,
                   table_data, emitted, req, session>>

Download ==
    /\ pc \in {"responded", "previewed"}
    /\ \E session_id \in SessionIds :
         \E r \in {download_excel(session_id, session)} :
            /\ resp' = r.resp
            /\ session' = r.session
    /\ pc' = "downloaded"
    /\ UNCHANGED <<text, cleaned, headers, mapping, data, unique_data, table,
                   table_data, emitted, req>>

Next == ScrapeUrl \/ Preview \/ Download

Spec == Init /\ [][Next]_vars

(***************************************************************************)
(* SpecUpdate: one POST /update_data on a session holding one scraped      *)
(* list, for every stored list of StoredPool and every body of Bodies.     *)
(***************************************************************************)
RecT1 == WithCalculated([Date |-> <<"0", "1", "/", "0", "2">>, Principal |-> <<"1", "0", "0">>, Pen |-> <<"5">>])
RecT2 == WithCalculated([Date |-> <<"0", "3", "/", "0", "4">>, Principal |-> <<"2", "0", "0">>, Pen |-> <<"5">>])
\* a record of the fallback extractor
RecF == [Date |-> <<"0", "1", "/", "0", "2">>, Pen |-> <<"5">>]

StoredPool ==
    {<<RecT1>>, <<RecT1, RecT2>>, <<RecF>>,
     <<SetField(RecT1, "Principal_PassBook", <<"5">>), RecT2>>}

StrValue(v) == [t |-> "str", v |-> v]
IntValue(n) == [t |-> "int", v |-> n]
Item(k, v) == [key |-> k, value |-> v]

UpdatesPool ==
    {[kind |-> "object", items |-> <<Item("Principal_PassBook", StrValue(<<"5">>))>>],
     [kind |-> "object", items |-> <<Item("Principal", StrValue(<<"9">>)),
                                     Item("Principal_PassBook", IntValue(7))>>],
     [kind |-> "object", items |-> <<Item("CBU_Variance", StrValue(<<"5">>)),
                                     Item("bogus", StrValue(<<"1">>))>>],
     [kind |-> "object", items |-> <<>>],
     [kind |-> "list"]}

IndexPool == {<<"0">>, <<"1">>, <<"-", "1">>, <<"-", "3">>, <<"x">>}

\* a JSON object holds each key once
DistinctKeys(entries) ==
    \A i, j \in DOMAIN entries : i # j => entries[i].key # entries[j].key

Bodies ==
    {[kind |-> "null"]}
    \cup {[kind |-> "object", entries |-> es] :
            es \in {e \in SeqUpTo([key : IndexPool, updates : UpdatesPool], MaxEntries) :
                       DistinctKeys(e)}}

InitUpdate ==
    /\ pc = "request"
    /\ \E d \in StoredPool : session = [k \in {"u1"} |-> StoredInfo(d, <<"h", "t", "t", "p", ":", "/", "/", "h", "/", "p">>)]
    /\ req \in {[op |-> "update", session_id |-> sid, body |-> b] :
                   sid \in SessionIds, b \in Bodies}
    /\ resp = NoRequest
    /\ IdleClean /\ IdleMap /\ IdleDedup /\ IdleTable

UpdateData ==
    /\ pc = "request"
    /\ req.op = "update"
    /\ \E r \in {update_data(req, session)} :
          /\ resp' = r.resp
          /\ session' = r.session
    /\ pc' = "responded"
    /\ UNCHANGED <<text, cleaned, headers, mapping, data, unique_data, table,
                   table_data, emitted, req>>

NextUpdate == UpdateData

SpecUpdate == InitUpdate /\ [][NextUpdate]_vars

(***************************************************************************)
(* Properties                                                              *)
(***************************************************************************)
\* the records of d that equal no earlier record of d, in the order of d
FirstOccurrences(d) ==
    LET IsFirst(i) == \A j \in 1..(i - 1) : d[j] # d[i]
        Pick(idx) == [k \in DOMAIN idx |-> d[idx[k]]]
    IN  Pick(SelectSeq([i \in DOMAIN d |-> i], IsFirst))

\* whether column c is present in one of the records only, or holds different values
FieldDiffers(old, new, c) ==
    \/ (c \in DOMAIN old) # (c \in DOMAIN new)
    \/ c \in DOMAIN old /\ c \in DOMAIN new /\ old[c] # new[c]

\* whether an entry of the body addresses the 0-based row index i0 with a
\* mapping that names column c
Supplied(entries, i0, c) ==
    \E e \in DOMAIN entries :
        /\ ParseInt(entries[e].key).ok
        /\ ParseInt(entries[e].key).n = i0
        /\ entries[e].updates.kind = "object"
        /\ \E m \in DOMAIN entries[e].updates.items : entries[e].updates.items[m].key = c

\* the update request in hand addresses only indices 0 .. n-1 of the n stored records
ValidIndexRequest ==
    /\ pc = "request"
    /\ req.op = "update"
    /\ req.session_id \in DOMAIN session
    /\ req.body.kind = "object"
    /\ \A e \in DOMAIN req.body.entries :
          /\ ParseInt(req.body.entries[e].key).ok
          /\ ParseInt(req.body.entries[e].key).n \in 0..(Len(session[req.session_id].data) - 1)

\* the stored lists old and new differ only in fields that are whitelisted
\* calculated columns named by an entry of the body for that record
OnlySuppliedCalculated(old, new, entries) ==
    /\ Len(new) = Len(old)
    /\ \A j \in DOMAIN old :
          \A c \in DOMAIN old[j] \cup DOMAIN new[j] :
              FieldDiffers(old[j], new[j], c) =>
                  c \in Range(calculated_columns) /\ Supplied(entries, j - 1, c)

\* C1: an update_data request whose entries all address valid record indices
\* changes only the supplied whitelisted calculated columns of the addressed
\* records; target columns, other calculated columns, other records, and the
\* number and order of the records stay as they were.
UpdateOnlyWhitelisted ==
    [][ValidIndexRequest =>
          /\ DOMAIN session' = DOMAIN session
          /\ session'[req.session_id].url = session[req.session_id].url
          /\ OnlySuppliedCalculated(session[req.session_id].data,
                                    session'[req.session_id].data, req.body.entries)]_vars

UpdateWitness ==
    /\ pc = "responded"
    /\ req.op = "update"
    /\ resp.status = 200
    /\ req.body.kind = "object"
    /\ Len(req.body.entries) = 1
    /\ req.body.entries[1].key = <<"1">>
    /\ session["u1"].data =
          <<RecT1, [RecT2 EXCEPT !["Principal_PassBook"] = <<"7">>]>>

\* C2: an entry whose index is outside 0 .. n-1 (negative indices included) or
\* whose column is not whitelisted changes no stored field, and a request
\* answered with an error leaves the stored records as they were.
MalformedEditIgnored ==
    [][(pc = "request" /\ req.op = "update" /\ req.session_id \in DOMAIN session) =>
          /\ DOMAIN session' = DOMAIN session
          /\ resp'.status # 200 => session' = session
          /\ req.body.kind = "object" =>
                OnlySuppliedCalculated(session[req.session_id].data,
                                       session'[req.session_id].data, req.body.entries)]_vars

\* C3: _remove_duplicates returns the first occurrences in input order: no two
\* output records are equal, every input record equals an output record, and
\* the output is the input with every repeat of an earlier record removed.
DedupFirstOccurrences ==
    pc = "deduped" =>
        /\ \A i, j \in DOMAIN unique_data : i # j => unique_data[i] # unique_data[j]
        /\ \A i \in DOMAIN data : \E k \in DOMAIN unique_data : unique_data[k] = data[i]
        /\ unique_data = FirstOccurrences(data)

DedupWitness ==
    /\ pc = "deduped"
    /\ Len(data) = 3
    /\ data[1] = data[3]
    /\ DOMAIN data[1] = DOMAIN data[2]
    /\ data[1] # data[2]
    /\ unique_data = <<data[1], data[2]>>

\* the distinct target columns the header row of table t maps to
DistinctTargets(t) ==
    LET Among(h) ==
            IF h = 0 THEN {}
            ELSE {MapHeader(HeadersOf(t[h])[i]) : i \in DOMAIN HeadersOf(t[h])} \ {None}
    IN  Among(HeaderRowIndex(t))

\* record rec holds at least three non-empty target columns, each the cleaned
\* text of a cell of row whose header maps to that column, and row has as
\* many cells as there are headers hs
BuiltFromRow(rec, row, hs) ==
    /\ Len(row) = Len(hs)
    /\ Cardinality({c \in DOMAIN rec \cap Range(target_columns) : rec[c] # <<>>}) >= 3
    /\ \A c \in DOMAIN rec \cap Range(target_columns) :
          \E j \in DOMAIN row : MapHeader(hs[j]) = c /\ _clean_text(row[j].text) = rec[c]

\* C4: a table whose header row maps to fewer than three distinct target
\* columns yields no record, and every record a table yields holds at least
\* three non-empty target columns taken from a row with as many cells as
\* there are headers.
TableNeedsThreeTargets ==
    pc = "processed" =>
        /\ Cardinality(DistinctTargets(table)) < 3 => table_data = <<>>
        /\ \A k \in DOMAIN table_data :
              BuiltFromRow(table_data[k], table[emitted[k]],
                           HeadersOf(table[HeaderRowIndex(table)]))

\* a payment table whose header maps three positions to two distinct targets,
\* with a full data row under it, and no record
TableWitness ==
    /\ pc = "processed"
    /\ table = <<TitleRow, DupHeaderRow, DataRowA>>
    /\ _is_payment_table(TableText(table))
    /\ Cardinality(DOMAIN _map_headers_to_targets(HeadersOf(table[2]))) = 3
    /\ Cardinality(DistinctTargets(table)) = 2
    /\ table_data = <<>>

\* the rule list of the header mapper for a lowercased, trimmed header h:
\* the exact matches, then the fallbacks
HeaderRules(h) ==
    <<[hit |-> h = <<"d", "a", "t", "e">>, target |-> "Date"],
      [hit |-> h \in {<<"r", "e", "c", "e", "i", "p", "t", " ", "n", "o">>, <<"r", "e", "c", "e", "i", "p", "t">>, <<"r", "e", "c", "e", "i", "p", "t", " ", "n", "u", "m", "b", "e", "r">>, <<"r", "e", "f", " ", "n", "o">>,
                      <<"r", "e", "f", "e", "r", "e", "n", "c", "e">>, <<"t", "r", "a", "n", "s", "a", "c", "t", "i", "o", "n", " ", "i", "d">>}, target |-> "Receipt No"],
      [hit |-> h = <<"p", "r", "i", "n", "c", "i", "p", "a", "l">>, target |-> "Principal"],
      [hit |-> h = <<"p", "e", "n">>, target |-> "Pen"],
      [hit |-> h = <<"c", "b", "u">>, target |-> "CBU"],
      [hit |-> h = <<"c", "b", "u", " ", "w", "i", "t", "h", "d", "r", "a", "w">>, target |-> "CBU withdraw"],
      [hit |-> h = <<"c", "o", "l", "l", "e", "c", "t", "o", "r">>, target |-> "Collector"],
      [hit |-> Contains(<<"d", "a", "t", "e">>, h) /\ Len(h) <= 10, target |-> "Date"],
      [hit |-> h \in {<<"p", "e", "n", "a", "l", "t", "y">>, <<"d", "e", "n", "d", "a">>}, target |-> "Pen"],
      [hit |-> Contains(<<"p", "r", "i", "n", "c", "i", "p", "a", "l">>, h) \/ Contains(<<"p", "o", "k", "o", "k">>, h), target |-> "Principal"],
      [hit |-> StartsWith(h, <<"c", "b", "u">>) /\ (Contains(<<"w", "i", "t", "h", "d", "r", "a", "w">>, h) \/ Contains(<<"t", "a", "r", "i", "k">>, h)),
       target |-> "CBU withdraw"],
      [hit |-> StartsWith(h, <<"c", "b", "u">>), target |-> "CBU"],
      [hit |-> Contains(<<"c", "o", "l", "l", "e", "c", "t", "o", "r">>, h) \/ Contains(<<"k", "o", "l", "e", "k", "t", "o", "r">>, h),
       target |-> "Collector"]>>

\* the target of the first rule that hits, None when no rule hits
FirstRule(rules) ==
    IF \E i \in DOMAIN rules : rules[i].hit
    THEN rules[CHOOSE i \in DOMAIN rules :
                   rules[i].hit /\ \A j \in 1..(i - 1) : ~rules[j].hit].target
    ELSE None

\* header position i (1-based) is mapped to target, or left out when target is None
MappedTo(i, target) ==
    IF target = None THEN (i - 1) \notin DOMAIN mapping
    ELSE (i - 1) \in DOMAIN mapping /\ mapping[i - 1] = target

\* C5: every header position is mapped by the first rule, in the order exact
\* matches then fallbacks, that its own lowercased trimmed text hits, whatever
\* its position and the other headers are; a header no rule hits is left out;
\* Date, Principal, Pen, CBU, Collector map to themselves, "CBU Withdraw" to
\* "CBU withdraw" and "Pokok" to "Principal".
HeaderMappingRules ==
    pc = "mapped" =>
        /\ DOMAIN mapping \subseteq 0..(Len(headers) - 1)
        /\ \A i \in DOMAIN headers :
              /\ MappedTo(i, FirstRule(HeaderRules(Strip(Lower(headers[i])))))
              /\ headers[i] = <<"D", "a", "t", "e">> => MappedTo(i, "Date")
              /\ headers[i] = <<"P", "r", "i", "n", "c", "i", "p", "a", "l">> => MappedTo(i, "Principal")
              /\ headers[i] = <<"P", "e", "n">> => MappedTo(i, "Pen")
              /\ headers[i] = <<"C", "B", "U">> => MappedTo(i, "CBU")
              /\ headers[i] = <<"C", "o", "l", "l", "e", "c", "t", "o", "r">> => MappedTo(i, "Collector")
              /\ headers[i] = <<"C", "B", "U", " ", "W", "i", "t", "h", "d", "r", "a", "w">> => MappedTo(i, "CBU withdraw")
              /\ headers[i] = <<"P", "o", "k", "o", "k">> => MappedTo(i, "Principal")

MappingWitness ==
    /\ pc = "mapped"
    /\ headers = <<<<"D", "a", "t", "e", " ", "P", "o", "k", "o", "k">>, <<"C", "B", "U", " ", "W", "i", "t", "h", "d", "r", "a", "w">>>>
    /\ mapping = (0 :> "Date" @@ 1 :> "CBU withdraw")

\* C6: every record scrape_payment_data returns holds the six calculated
\* columns, each empty, whether a table or the fallback extractor built it.
AllRecordsHaveCalculated ==
    pc = "responded" =>
        \A k \in DOMAIN unique_data :
            \A c \in Range(calculated_columns) :
                c \in DOMAIN unique_data[k] /\ unique_data[k][c] = <<>>

\* no two neighbouring characters of s are both white space
NoSpaceRun(s) == \A i \in 1..(Len(s) - 1) : ~(IsSpace(s[i]) /\ IsSpace(s[i + 1]))

\* C7: the result of _clean_text holds whitelisted characters only, neither
\* starts nor ends with white space, holds no run of two or more white-space
\* characters, and cleaning it again changes nothing.
CleanTextNormalised ==
    /\ pc \in {"cleaned", "recleaned"} =>
          /\ \A i \in DOMAIN cleaned : KeptChar(cleaned[i])
          /\ cleaned # <<>> => ~IsSpace(cleaned[1]) /\ ~IsSpace(cleaned[Len(cleaned)])
          /\ NoSpaceRun(cleaned)
    /\ pc = "recleaned" => cleaned = text

\* the URL of the request passes the validation of scrape_url
ValidUrl(url) == url # <<>> /\ UrlScheme(url) # <<>> /\ UrlNetloc(url) # <<>>

OneFlash(category) == Len(resp.flashes) = 1 /\ resp.flashes[1].category = category

\* C8: a scrape request fetches at most once and ends in one of: an error
\* (one flashed error wrapping the cause, nothing stored) when the fetch or
\* the parse fails; a warning (nothing stored) when the page yields no
\* record; the deduplicated records stored under one new session id
\* otherwise.  A request whose URL fails validation fetches nothing and
\* stores nothing.
ScrapeOutcomes ==
    pc = "responded" =>
        /\ resp.fetches <= 1
        /\ ~ValidUrl(Strip(req.url)) =>
              resp.fetches = 0 /\ OneFlash("error") /\ session = <<>>
        /\ (ValidUrl(Strip(req.url)) /\ req.fetch.kind # "page") =>
              /\ resp.fetches = 1
              /\ OneFlash("error")
              /\ resp.flashes[1].message =
                    (IF req.fetch.kind = "request_error" THEN "Failed to fetch URL"
                     ELSE "Failed to scrape data")
              /\ session = <<>>
        /\ (ValidUrl(Strip(req.url)) /\ req.fetch.kind = "page" /\ unique_data = <<>>) =>
              resp.fetches = 1 /\ OneFlash("warning") /\ session = <<>>
        /\ (ValidUrl(Strip(req.url)) /\ req.fetch.kind = "page" /\ unique_data # <<>>) =>
              /\ resp.fetches = 1
              /\ resp.flashes = <<>>
              /\ resp.location = "preview"
              /\ Cardinality(DOMAIN session) = 1
              /\ \A sid \in DOMAIN session : session[sid].data = FirstOccurrences(data)

ScrapeWitness ==
    /\ pc = "responded"
    /\ resp.location = "preview"
    /\ Len(data) = 3
    /\ \E sid \in DOMAIN session : Len(session[sid].data) = 2

\* the scraper returned the deduplicated records tables when there are any,
\* the deduplicated records fallback otherwise
TablesElseFallback(tables, fallback) ==
    IF tables # <<>>
    THEN data = tables /\ unique_data = FirstOccurrences(tables)
    ELSE data = fallback /\ unique_data = FirstOccurrences(fallback)

\* C9: when a table yields a record the result is the deduplicated table
\* records in table order and nothing of the fallback extractor; when no
\* table yields a record it is the deduplicated fallback records.
FallbackOnlyWithoutTableRecords ==
    (pc = "responded" /\ ValidUrl(Strip(req.url)) /\ req.fetch.kind = "page") =>
        TablesElseFallback(_extract_from_tables(req.fetch.tables),
                           _extract_from_structured_content(req.fetch.elements))

\* tables with records on a page whose elements would give the fallback a record
FallbackWitness ==
    /\ pc = "responded"
    /\ req.fetch.kind = "page"
    /\ req.fetch.tables = <<TableC, TableA>>
    /\ req.fetch.elements = <<<<"D", "a", "t", "e", ":", " ", "0", "1", "/", "0", "2">>, <<" ", "P", "e", "n", " ", ":", " ", "5", " ">>>>
    /\ Len(unique_data) = 2
    /\ \A k \in DOMAIN unique_data : "Collector" \in DOMAIN unique_data[k]

\* table t passes the payment test, has a header row and at least three
\* mapped header positions
AcceptedTable(t) ==
    /\ _is_payment_table(TableText(t))
    /\ HeaderRowIndex(t) # 0
    /\ Cardinality(DOMAIN _map_headers_to_targets(HeadersOf(t[HeaderRowIndex(t)]))) >= 3

\* row i of t would be accepted by the row test under the headers of row h
RowQualifies(t, i, h) ==
    RowAccepted(t[i], HeadersOf(t[h]),
                RowData(t[i], _map_headers_to_targets(HeadersOf(t[h]))))

\* C10: the header row of an accepted table is never emitted as a record,
\* wherever it is, and every other row that passes the row test is emitted.
OnlyDataRowsEmitted ==
    (pc = "processed" /\ AcceptedTable(table)) =>
        /\ HeaderRowIndex(table) \notin Range(emitted)
        /\ \A i \in DOMAIN table \ {HeaderRowIndex(table)} :
              RowQualifies(table, i, HeaderRowIndex(table)) => i \in Range(emitted)

====
